---- MODULE Spec2Model ----
(***************************************************************************)
(* Model of the CRUD handlers of the vsphere_host, vsphere_file and        *)
(* vsphere_compute_policy resources.  One resource instance is followed:   *)
(* its Terraform state (ID and attributes), the server-side object it      *)
(* manages, and a record of the last handler that ran (inputs, remote      *)
(* calls issued in order, result).  Remote calls are made by the govmomi   *)
(* and vAPI SDKs; their results are choices of the environment.            *)
(***************************************************************************)
EXTENDS Integers, Sequences, FiniteSets, TLC

VARIABLES kind, dId, dAttrs, srv, last

vars == <<kind, dId, dAttrs, srv, last>>

(* ---------------------------------------------------------------------- *)
(* Bounds and value domains                                               *)
(* ---------------------------------------------------------------------- *)

\* number of license keys the license manager may know about
MaxLicenses == 1
\* number of connection settings one plan changes at once
MaxChanged == 1
\* length of the policy type strings the conversions are applied to
MaxTypeLen == 3
\* number of compute policies the server lists
MaxPolicies == 2
\* number of virtual NICs a host can hold
MaxNics == 1

LicenseKeys == {"L" \o ToString(i) : i \in 1..MaxLicenses}
Clusters == {"domain-c1", "domain-c2"}

Kinds == {"host", "file", "policy", "convert", "policy_data", "vnic", "session"}

\* types.HostSystemConnectionState
ConnStates == {"connected", "notResponding", "disconnected"}

\* d.Id(): a sequence of tokens, empty when no ID is set
NoID == <<>>
HostID == <<"host-1">>

\* the error values the handlers classify: soap tells soap.IsSoapFault,
\* fault is the type of the fault detail
NotFoundFault == [soap |-> TRUE, fault |-> "ManagedObjectNotFound"]
OtherFault == [soap |-> TRUE, fault |-> "InvalidLogin"]
PlainError == [soap |-> FALSE, fault |-> "none"]
NoError == [soap |-> FALSE, fault |-> "nil"]

(* ---------------------------------------------------------------------- *)
(* The running handler: a context threaded through its statements.        *)
(* ret = "run" while the handler runs, then "nil", "error" or "panic".    *)
(* ---------------------------------------------------------------------- *)

Call(c, name) == [c EXCEPT !.calls = Append(@, name)]
ReturnNil(c) == [c EXCEPT !.ret = "nil"]
ReturnErr(c, e) == [c EXCEPT !.ret = "error", !.err = e]
Panic(c) == [c EXCEPT !.ret = "panic"]

\* run F on every context of S that is still running
Bind(S, F(_)) == UNION {IF c.ret = "run" THEN F(c) ELSE {c} : c \in S}

NewContext(id, attrs, old, diff, server) ==
  [ret |-> "run", err |-> NoError, calls |-> <<>>, id |-> id, attrs |-> attrs,
   old |-> old, diff |-> diff, srv |-> server, obs |-> [none |-> TRUE]]

Observe(c, o) == [c EXCEPT !.obs = o @@ @]

\* the outcomes of a remote call that starts a task and of waiting for it:
\* the call fails, or the task ends in success or error; Wait returns the
\* task's error, and may fail on its own although the task succeeded
TaskOutcomes ==
  {[call |-> "err", task |-> "none", wait |-> "none"],
   [call |-> "ok", task |-> "success", wait |-> "nil"],
   [call |-> "ok", task |-> "success", wait |-> "err"],
   [call |-> "ok", task |-> "error", wait |-> "err"]}

(* ---------------------------------------------------------------------- *)
(* vsphere_host                                                           *)
(* ---------------------------------------------------------------------- *)

resourceVsphereHostSchema ==
  {"cluster", "hostname", "username", "password", "thumbprint", "license",
   "force", "connected"}

\* d.Set: a key the schema does not declare is rejected and nothing is set
HostSet(c, key, val) ==
  IF key \in resourceVsphereHostSchema
    THEN [c EXCEPT !.attrs = [@ EXCEPT ![key] = val]]
    ELSE c

NoHost == [exists |-> FALSE, conn |-> "disconnected", parent |-> "none", license |-> ""]

HostAttrs == [connected : BOOLEAN, license : {""} \cup LicenseKeys, cluster : Clusters]
NoAttrs == [none |-> TRUE]

\* hostsystem.FromID / clustercomputeresource.FromID results
HostLookupErrors(server) ==
  (IF server.exists THEN {NoError} ELSE {NotFoundFault}) \cup {OtherFault, PlainError}

\* d.Get(key).(bool) of handler code: a key the schema declares yields its
\* value.  What Get yields for an undeclared key is decided by the plugin SDK,
\* which is outside this repository: nil (the type assertion then panics) or
\* the zero value; the model admits both.
GetBoolResults(c, key) ==
  IF key \in resourceVsphereHostSchema
    THEN {[panic |-> FALSE, val |-> c.attrs[key]]}
    ELSE {[panic |-> TRUE, val |-> FALSE], [panic |-> FALSE, val |-> FALSE]}

\* resourceVsphereHostRead, after the lookup: properties, connection state,
\* assigned licenses
HostReadRefresh(c) ==
  LET props(c1) ==
        {ReturnErr(Call(c1, "Properties"), PlainError)} \cup
        {LET c2 == Call(c1, "Properties")
         IN IF parent # "nil" THEN HostSet(c2, "cluster", parent)
                              ELSE HostSet(c2, "cluster", "")
           : parent \in {c1.srv.parent}}
      conn(c1) ==
        {ReturnErr(Call(c1, "GetConnectionState"), PlainError)} \cup
        {LET c2 == Observe(Call(c1, "GetConnectionState"),
                           [connectionState |-> c1.srv.conn])
         IN IF c1.srv.conn # "disconnected"
              THEN HostSet(c2, "connected", TRUE)
              ELSE HostSet(c2, "conencted", FALSE)}
      lic(c1) ==
        {ReturnErr(Call(c1, "AssignmentManager"), PlainError),
         ReturnErr(Call(Call(c1, "AssignmentManager"), "QueryAssigned"), PlainError)} \cup
        {LET c2 == Call(Call(c1, "AssignmentManager"), "QueryAssigned")
             licFound == c1.attrs.license \in ({c1.srv.license} \ {""})
         IN ReturnNil(IF ~licFound THEN HostSet(c2, "license", "") ELSE c2)}
  IN Bind(Bind(props(c), conn), lic)

\* a variant that takes every SOAP fault for a missing host
HostReadLookupFailed_AnyFault(c, err) ==
  IF err.soap THEN ReturnNil([c EXCEPT !.id = NoID]) ELSE ReturnErr(c, err)

\* the classification of the error hostsystem.FromID returned
HostReadLookupFailed(c, err) ==
  IF err.soap
    THEN IF err.fault # "ManagedObjectNotFound"
           THEN ReturnErr(c, err)
           ELSE ReturnNil([c EXCEPT !.id = NoID])
    ELSE ReturnErr(c, err)

resourceVsphereHostRead(c) ==
  IF c.id = NoID
    THEN {ReturnNil(c)}
    ELSE UNION
      {LET c1 == Observe(Call(c, "HostFromID"), [lookup |-> err])
       IN IF err # NoError
            THEN {HostReadLookupFailed(c1, err)}
            ELSE HostReadRefresh(c1)
         : err \in HostLookupErrors(c.srv)}

\* ccr.AddHost and the task it starts: asConnected decides the state the host
\* is added in
AddHostResults(c, asConnected) ==
  {[out |-> o,
    srv |-> IF o.task = "success"
              THEN [exists |-> TRUE,
                    conn |-> IF asConnected THEN "connected" ELSE "disconnected",
                    parent |-> c.attrs.cluster, license |-> c.attrs.license]
              ELSE c.srv]
     : o \in {t \in TaskOutcomes : t.task = "success" => ~c.srv.exists}}

\* resourceVsphereHostCreate from the AddHost call on
HostCreateAddHost(c, forcedState) ==
  UNION
    {LET c1 == [Call(c, "AddHost") EXCEPT !.srv = r.srv]
         c2 == Observe(c1, [addHost |-> r.out.call, added |-> r.srv.conn])
     IN IF r.out.call = "err"
          \* the error is logged only; task is nil and task.Wait dereferences it
          THEN {Panic(Call(c2, "TaskWait"))}
          ELSE LET c3 == Call(c2, "TaskWait")
               IN {ReturnErr(Call(c3, "TaskProperties"), PlainError)} \cup
                  (LET c4 == Call(c3, "TaskProperties")
                   IN IF r.out.task # "success"
                        THEN {ReturnErr(c4, PlainError)}
                        ELSE resourceVsphereHostRead([c4 EXCEPT !.id = HostID]))
       : r \in AddHostResults(c, forcedState)}

\* the license check of resourceVsphereHostCreate against lm.List
HostCreateLicFound(licenseKey, ll) == licenseKey \in ll

resourceVsphereHostCreate(c) ==
  {ReturnErr(Call(c, "ClusterFromID"), PlainError)} \cup
  {ReturnErr(Call(Call(c, "ClusterFromID"), "LicenseList"), PlainError)} \cup
  UNION
    {LET c1 == Observe(Call(Call(c, "ClusterFromID"), "LicenseList"),
                       [licFound |-> HostCreateLicFound(c.attrs.license, ll)])
     IN IF ~HostCreateLicFound(c1.attrs.license, ll)
          THEN {ReturnErr(c1, PlainError)}
          ELSE UNION {IF g.panic THEN {Panic(c1)} ELSE HostCreateAddHost(c1, g.val)
                        : g \in GetBoolResults(c1, "forced")}
       : ll \in SUBSET LicenseKeys}

connectionKeys == <<"hostname", "username", "password", "thumbprint">>

HasChange(c, k) == k \in c.diff

\* a variant that does not look at the changed connection settings
shouldReconnect_IgnoreChange(actual, desired, reconnect) ==
  IF desired /\ actual # "connected" THEN [val |-> 1, err |-> FALSE]
  ELSE IF desired THEN [val |-> 0, err |-> FALSE]
  ELSE IF actual = "disconnected" THEN [val |-> 0, err |-> FALSE]
  ELSE [val |-> -1, err |-> FALSE]

\* a variant that reconnects on a changed connection setting whatever the
\* desired state
shouldReconnect_IgnoreDesired(actual, desired, reconnect) ==
  IF reconnect THEN [val |-> 1, err |-> FALSE]
  ELSE IF desired /\ actual # "connected" THEN [val |-> 1, err |-> FALSE]
  ELSE IF desired THEN [val |-> 0, err |-> FALSE]
  ELSE IF actual = "disconnected" THEN [val |-> 0, err |-> FALSE]
  ELSE [val |-> -1, err |-> FALSE]

\* shouldReconnect: 1 reconnect, -1 disconnect, 0 nothing
shouldReconnect(actual, desired, reconnect) ==
  IF reconnect /\ desired THEN [val |-> 1, err |-> FALSE]
  ELSE IF desired /\ actual # "connected" THEN [val |-> 1, err |-> FALSE]
  ELSE IF desired /\ actual # "disconnected" /\ ~reconnect THEN [val |-> 0, err |-> FALSE]
  ELSE IF ~desired /\ actual = "disconnected" THEN [val |-> 0, err |-> FALSE]
  ELSE IF ~desired /\ actual # "disconnected" THEN [val |-> -1, err |-> FALSE]
  ELSE [val |-> 255, err |-> TRUE]

\* handleReconnect / handleDisconnect: start the task, wait, read its result
HostConnectionTask(c, name, target) ==
  {LET c1 == [Call(c, name) EXCEPT
                !.srv = IF o.task = "success" THEN [@ EXCEPT !.conn = target] ELSE @]
   IN IF o.call = "err" THEN ReturnErr(c1, PlainError)
      ELSE IF o.wait = "err" THEN ReturnErr(Call(c1, "TaskWait"), PlainError)
      ELSE IF props = "err"
        THEN ReturnErr(Call(Call(c1, "TaskWait"), "TaskProperties"), PlainError)
      ELSE IF o.task # "success"
        THEN ReturnErr(Call(Call(c1, "TaskWait"), "TaskProperties"), PlainError)
      ELSE Call(Call(c1, "TaskWait"), "TaskProperties")
     : o \in TaskOutcomes, props \in {"ok", "err"}}

handleReconnect(c) == HostConnectionTask(c, "Reconnect", "connected")

handleDisconnect(c) == HostConnectionTask(c, "Disconnect", "disconnected")

\* modifyLicense: the result of lam.Update is dropped
modifyLicense(c) ==
  {ReturnErr(Call(c, "AssignmentManager"), PlainError)} \cup
  {LET c1 == Call(Call(c, "AssignmentManager"), "LicenseUpdate")
       c2 == Observe(c1, [licenseUpdate |-> r])
   IN IF r = "ok" THEN [c2 EXCEPT !.srv = [@ EXCEPT !.license = c.attrs.license]]
                  ELSE c2
     : r \in {"ok", "err"}}

modifyCluster(c) ==
  {ReturnErr(Call(c, "ClusterFromID"), PlainError)} \cup
  UNION
    {LET c1 == Call(Call(c, "ClusterFromID"), "HostFromID")
     IN IF err # NoError THEN {ReturnErr(c1, err)}
        ELSE
          {ReturnErr(Call(c1, "EnterMaintenanceMode"), PlainError)} \cup
          UNION
            {LET c2 == [Call(Call(c1, "EnterMaintenanceMode"), "MoveInto") EXCEPT
                          !.srv = IF o.task = "success"
                                    THEN [@ EXCEPT !.parent = c.attrs.cluster] ELSE @]
             IN IF o.call = "err" THEN {ReturnErr(c2, PlainError)}
                ELSE
                  LET c3 == Call(c2, "TaskWait")
                  IN {ReturnErr(Call(c3, "ExitMaintenanceMode"), PlainError),
                      ReturnErr(Call(Call(c3, "ExitMaintenanceMode"), "TaskProperties"),
                                PlainError),
                      IF o.task # "success"
                        THEN ReturnErr(Call(Call(c3, "ExitMaintenanceMode"),
                                            "TaskProperties"), PlainError)
                        ELSE Call(Call(c3, "ExitMaintenanceMode"), "TaskProperties")}
               : o \in TaskOutcomes}
       : err \in HostLookupErrors(c.srv)}

\* a variant of the loop that does not ask d.HasChange
HostUpdateMutable_NoDiff(c, order) ==
  LET apply(k, c1) ==
        IF k = "license" THEN modifyLicense(c1)
        ELSE modifyCluster(c1)
  IN Bind(apply(order[1], c), LAMBDA c1 : apply(order[2], c1))

\* the loop of resourceVsphereHostUpdate over mutableKeys, a Go map: the keys
\* come in either order
HostUpdateMutable(c, order) ==
  LET apply(k, c1) ==
        IF ~HasChange(c1, k) THEN {c1}
        ELSE IF k = "license" THEN modifyLicense(c1)
        ELSE modifyCluster(c1)
  IN Bind(apply(order[1], c), LAMBDA c1 : apply(order[2], c1))

\* a variant whose switch has no case -1
HostUpdateConnection_NoDisconnect(c, actualConnectionState) ==
  LET reconnect == \E i \in 1..Len(connectionKeys) : HasChange(c, connectionKeys[i])
      reconnectNeeded == shouldReconnect(actualConnectionState, c.attrs.connected, reconnect)
  IN IF reconnectNeeded.err THEN {ReturnErr(c, PlainError)}
     ELSE IF reconnectNeeded.val = 1 THEN handleReconnect(c)
     ELSE {c}

\* the connection step of resourceVsphereHostUpdate
HostUpdateConnection(c, actualConnectionState) ==
  LET \* the new value of GetChange when connected changed, else d.Get: the
      \* value of the configuration either way
      desiredConnectionState ==
        IF HasChange(c, "connected") THEN c.attrs.connected ELSE c.attrs.connected
      reconnect == \E i \in 1..Len(connectionKeys) : HasChange(c, connectionKeys[i])
      reconnectNeeded ==
        shouldReconnect(actualConnectionState, desiredConnectionState, reconnect)
  IN IF reconnectNeeded.err THEN {ReturnErr(c, PlainError)}
     ELSE IF reconnectNeeded.val = 1 THEN handleReconnect(c)
     ELSE IF reconnectNeeded.val = -1 THEN handleDisconnect(c)
     ELSE {c}

resourceVsphereHostUpdate(c) ==
  UNION
    {LET c1 == Call(c, "HostFromID")
     IN IF err # NoError THEN {ReturnErr(c1, err)}
        ELSE
          {ReturnErr(Call(c1, "GetConnectionState"), PlainError)} \cup
          (LET c2 == Observe(Call(c1, "GetConnectionState"), [actual |-> c.srv.conn])
           IN UNION
                {Bind(Bind(HostUpdateConnection(c2, c.srv.conn),
                           LAMBDA c3 : HostUpdateMutable(c3, order)),
                      resourceVsphereHostRead)
                   : order \in {<<"license", "cluster">>, <<"cluster", "license">>}})
       : err \in HostLookupErrors(c.srv)}

\* hs.Destroy and what follows it in resourceVsphereHostDelete
HostDeleteDestroy(c) ==
  UNION
    {LET c2 == [Call(c, "Destroy") EXCEPT
                  !.srv = IF o.task = "success" THEN NoHost ELSE @]
         c3 == Observe(c2, [task |-> o.task])
     IN IF o.call = "err" THEN {ReturnErr(c3, PlainError)}
        ELSE IF o.wait = "err" THEN {ReturnErr(Call(c3, "TaskWait"), PlainError)}
        ELSE {ReturnErr(Call(Call(c3, "TaskWait"), "TaskProperties"), PlainError),
              IF o.task # "success"
                THEN ReturnErr(Call(Call(c3, "TaskWait"), "TaskProperties"),
                               PlainError)
                ELSE ReturnNil(Call(Call(c3, "TaskWait"), "TaskProperties"))}
       : o \in TaskOutcomes}

\* a variant that destroys the host whatever EnterMaintenanceMode returned
HostDeleteMaintenance_Ignored(c, entered) ==
  HostDeleteDestroy(Observe(Call(c, "EnterMaintenanceMode"), [maintenance |-> entered]))

\* resourceVsphereHostDelete from EnterMaintenanceMode on
HostDeleteMaintenance(c, entered) ==
  LET c1 == Observe(Call(c, "EnterMaintenanceMode"), [maintenance |-> entered])
  IN IF entered = "err" THEN {ReturnErr(c1, PlainError)}
     ELSE HostDeleteDestroy(c1)

resourceVsphereHostDelete(c) ==
  UNION
    {LET c1 == Call(c, "HostFromID")
     IN IF err # NoError THEN {ReturnErr(c1, err)}
        ELSE UNION {HostDeleteMaintenance(c1, entered) : entered \in {"ok", "err"}}
       : err \in HostLookupErrors(c.srv)}

(* ---------------------------------------------------------------------- *)
(* vsphere_file                                                           *)
(* ---------------------------------------------------------------------- *)

\* the datastores of the inventory: managed object ID, name, datacenter
Datastores ==
  {[id |-> "datastore-1", name |-> "ds1", dc |-> "dc1"],
   [id |-> "datastore-2", name |-> "ds2", dc |-> "dc2"]}

NilDatastore == [id |-> "nil", name |-> "nil", dc |-> "nil"]

\* the ways a configuration names the destination datastore (datastore_id
\* conflicts with datastore and datacenter)
FileDestinations ==
  {[datastore |-> "", datacenter |-> "", datastore_id |-> ds.id] : ds \in Datastores} \cup
  {[datastore |-> ds.name, datacenter |-> ds.dc, datastore_id |-> ""] : ds \in Datastores}

\* and the source datastore; none means the file is uploaded from the local machine
FileSources ==
  {[source_datastore |-> "", source_datacenter |-> "", source_datastore_id |-> ""],
   [source_datastore |-> "", source_datacenter |-> "", source_datastore_id |-> "datastore-1"],
   [source_datastore |-> "ds2", source_datacenter |-> "dc2", source_datastore_id |-> ""]}

\* file paths, as sequences of characters
FilePaths == {<<"a">>, <<"d", "/", "a">>}

SourceFile == <<"s">>

FileAttrs ==
  {dst @@ src @@ [source_file |-> SourceFile, destination_file |-> df]
     : dst \in FileDestinations, src \in FileSources, df \in FilePaths}

\* the state of a resource that was never applied: GetChange yields zero values
FileZeroAttrs ==
  [datastore |-> "", datacenter |-> "", datastore_id |-> "",
   source_datastore |-> "", source_datacenter |-> "", source_datastore_id |-> "",
   source_file |-> <<>>, destination_file |-> <<>>]

NoFiles == [files |-> {}]

\* ds.Path(p): "[name] p"
DatastorePath(ds, p) == <<"[", ds.name, "]", " ">> \o p

\* fileDatastore: by datacenter and name when no ID is given, else by ID; every
\* lookup can fail
fileDatastore(dsn, dcn, dsi) ==
  IF dsi = ""
    THEN {[err |-> TRUE, ds |-> NilDatastore]} \cup
         {[err |-> FALSE, ds |-> ds] : ds \in {x \in Datastores : x.name = dsn /\ x.dc = dcn}}
    ELSE {[err |-> TRUE, ds |-> NilDatastore]} \cup
         {[err |-> FALSE, ds |-> ds] : ds \in {x \in Datastores : x.id = dsi}}

\* fileDatastores: (sds, dds) of the current values of d
fileDatastores(a) ==
  UNION
    {IF dd.err THEN {[err |-> TRUE, first |-> NilDatastore, second |-> NilDatastore]}
     ELSE IF a.source_datastore_id # "" \/ a.source_datastore # ""
       THEN {IF sd.err
               THEN [err |-> TRUE, first |-> NilDatastore, second |-> NilDatastore]
               ELSE [err |-> FALSE, first |-> sd.ds, second |-> dd.ds]
               : sd \in fileDatastore(a.source_datastore, a.source_datacenter,
                                      a.source_datastore_id)}
       ELSE {[err |-> FALSE, first |-> NilDatastore, second |-> dd.ds]}
       : dd \in fileDatastore(a.datastore, a.datacenter, a.datastore_id)}

\* fileOldDatastores: the same from the old values of d, returned as (dds, sds)
fileOldDatastores(old) ==
  UNION
    {IF dd.err THEN {[err |-> TRUE, first |-> NilDatastore, second |-> NilDatastore]}
     ELSE IF old.source_datastore_id # "" \/ old.source_datastore # ""
       THEN {IF sd.err
               THEN [err |-> TRUE, first |-> NilDatastore, second |-> NilDatastore]
               ELSE [err |-> FALSE, first |-> dd.ds, second |-> sd.ds]
               : sd \in fileDatastore(old.source_datastore, old.source_datacenter,
                                      old.source_datastore_id)}
       ELSE {[err |-> FALSE, first |-> dd.ds, second |-> NilDatastore]}
       : dd \in fileDatastore(old.datastore, old.datacenter, old.datastore_id)}

\* errors of dds.Stat
NoSuchFileError == [soap |-> FALSE, fault |-> "DatastoreNoSuchFileError"]

StatErrors(server, ds, df) ==
  (IF <<ds.id, df>> \in server.files THEN {NoError} ELSE {NoSuchFileError}) \cup {PlainError}

\* the classification of the error dds.Stat returned
FileReadStatFailed(c, err) ==
  IF err.fault = "DatastoreNoSuchFileError"
    THEN ReturnNil([c EXCEPT !.id = NoID])
    ELSE ReturnErr(c, err)

resourceVSphereFileRead(c) ==
  UNION
    {LET c1 == Call(c, "fileDatastores")
     IN IF r.err THEN {ReturnErr(Observe(c1, [datastores |-> "err"]), PlainError)}
        ELSE {LET c2 == Observe(Call(c1, "Stat"), [lookup |-> err])
              IN IF err # NoError THEN FileReadStatFailed(c2, err) ELSE ReturnNil(c2)
                : err \in StatErrors(c.srv, r.second, c.attrs.destination_file)}
       : r \in fileDatastores(c.attrs)}

\* fm.MoveDatastoreFile and its task: the file moves when the task succeeds,
\* which takes the source file to exist
FileMove(c, src, odc, dst, dc) ==
  {LET moved == [files |-> (c.srv.files \ {<<src.ds.id, src.df>>})
                             \cup {<<dst.ds.id, dst.df>>}]
       c1 == Observe(Call(c, "MoveDatastoreFile"),
                     [move |-> [src |-> DatastorePath(src.ds, src.df), srcDc |-> odc,
                                dst |-> DatastorePath(dst.ds, dst.df), dstDc |-> dc]])
   IN IF o.call = "err" THEN ReturnErr(c1, PlainError)
      ELSE IF o.wait = "err" THEN ReturnErr(Call(c1, "WaitForResult"), PlainError)
      ELSE ReturnNil([Call(c1, "WaitForResult") EXCEPT !.srv = moved])
     : o \in {t \in TaskOutcomes :
                t.task = "success" => (t.wait = "nil" /\ <<src.ds.id, src.df>> \in c.srv.files)}}

\* getDatacenter
DatacenterResults(path) == {[err |-> TRUE, dc |-> "nil"], [err |-> FALSE, dc |-> path]}

resourceVSphereFileUpdate(c) ==
  UNION
    {IF o.err THEN {ReturnErr(Call(c, "fileOldDatastores"), PlainError)}
     ELSE UNION
       {LET c1 == Call(Call(c, "fileOldDatastores"), "fileDatastores")
            \* _, odds, err := fileOldDatastores(d, client)
            odds0 == o.second
            dds == n.second
            odds == IF odds0 = NilDatastore THEN dds ELSE odds0
            df == c.attrs.destination_file
            odf == c.old.destination_file
        IN IF n.err THEN {ReturnErr(c1, PlainError)}
           ELSE UNION
             {IF odc.err THEN {ReturnErr(Call(c1, "getDatacenter"), PlainError)}
              ELSE UNION
                {LET c2 == Call(Call(c1, "getDatacenter"), "getDatacenter")
                 IN IF dc.err THEN {ReturnErr(c2, PlainError)}
                    ELSE FileMove(c2, [ds |-> odds, df |-> odf], odc.dc,
                                  [ds |-> dds, df |-> df], dc.dc)
                   : dc \in DatacenterResults(dds.dc)}
                : odc \in DatacenterResults(odds.dc)}
          : n \in fileDatastores(c.attrs)}
       : o \in fileOldDatastores(c.old)}

\* strings.LastIndex(s, ch): the 0-based index of the last ch in s, -1 if none
LastIndex(s, ch) ==
  LET at == {i \in 1..Len(s) : s[i] = ch}
  IN IF at = {} THEN -1 ELSE (CHOOSE i \in at : \A j \in at : j <= i) - 1

\* fileCreateDir: make the directory of df, if df has one
fileCreateDir(c, df, dds) ==
  LET di == LastIndex(df, "/")
  IN IF di = -1 THEN {c}
     ELSE LET path == SubSeq(df, 1, di)
              c1 == Observe(Call(c, "MakeDirectory"),
                            [mkdir |-> DatastorePath(dds, path)])
          IN {ReturnErr(c1, PlainError), c1}

\* a task that puts the file df on datastore dds (copy), or removes it (delete)
FileTask(c, name, files) ==
  {LET c1 == Call(c, name)
   IN IF o.call = "err" THEN ReturnErr(c1, PlainError)
      ELSE IF o.wait = "err" THEN ReturnErr(Call(c1, "WaitForResult"), PlainError)
      ELSE [Call(c1, "WaitForResult") EXCEPT !.srv = [files |-> files]]
     : o \in {t \in TaskOutcomes : t.task = "success" => t.wait = "nil"}}

fileCopy(c, sds, sf, dds, df) ==
  Bind(fileCreateDir(c, df, dds),
       LAMBDA c1 : FileTask(Call(Call(c1, "getDatacenter"), "getDatacenter"),
                            "CopyDatastoreFile", c1.srv.files \cup {<<dds.id, df>>}))

FileUpload(c, dds, df) ==
  {ReturnErr(Call(c, "UploadFile"), PlainError),
   [Call(c, "UploadFile") EXCEPT !.srv = [files |-> c.srv.files \cup {<<dds.id, df>>}]]}

resourceVSphereFileCreate(c) ==
  UNION
    {LET c1 == Call(c, "fileDatastores")
         sds == r.first
         dds == r.second
         df == c.attrs.destination_file
         sf == c.attrs.source_file
         written == IF sds # NilDatastore /\ sf # <<>>
                      THEN fileCopy(c1, sds, sf, dds, df)
                      ELSE FileUpload(c1, dds, df)
     IN IF r.err THEN {ReturnErr(c1, PlainError)}
        ELSE Bind(written,
                  LAMBDA c2 : {ReturnNil([c2 EXCEPT !.id = <<"[", dds.id, "]", " ">> \o df])})
       : r \in fileDatastores(c.attrs)}

resourceVSphereFileDelete(c) ==
  UNION
    {LET c1 == Call(c, "fileDatastores")
         dds == r.second
         df == c.attrs.destination_file
     IN IF r.err THEN {ReturnErr(c1, PlainError)}
        ELSE Bind(FileTask(Call(c1, "getDatacenter"), "DeleteDatastoreFile",
                           c.srv.files \ {<<dds.id, df>>}),
                  LAMBDA c2 : {ReturnNil(c2)})
       : r \in fileDatastores(c.attrs)}

(* ---------------------------------------------------------------------- *)
(* vsphere_compute_policy                                                 *)
(* ---------------------------------------------------------------------- *)

\* strings are sequences of characters
computePolicyTypeVmHostAffinity == <<"v", "m", "_", "h", "o", "s", "t", "_", "a", "f", "f", "i", "n", "i", "t", "y">>
computePolicyTypeVmHostAntiAffinity ==
  <<"v", "m", "_", "h", "o", "s", "t", "_", "a", "n", "t", "i", "_", "a",
    "f", "f", "i", "n", "i", "t", "y">>
computePolicyTypeVmVmAffinity == <<"v", "m", "_", "v", "m", "_", "a", "f", "f", "i", "n", "i", "t", "y">>
computePolicyTypeVmVmAntiAffinity ==
  <<"v", "m", "_", "v", "m", "_", "a", "n", "t", "i", "_", "a", "f", "f",
    "i", "n", "i", "t", "y">>

computePolicyTypeAllowedValues ==
  <<computePolicyTypeVmHostAffinity, computePolicyTypeVmHostAntiAffinity,
    computePolicyTypeVmVmAffinity, computePolicyTypeVmVmAntiAffinity>>

CapabilityPrefix ==
  <<"c", "o", "m", ".", "v", "m", "w", "a", "r", "e", ".", "v", "c", "e",
    "n", "t", "e", "r", ".", "c", "o", "m", "p", "u", "t", "e", ".", "p",
    "o", "l", "i", "c", "i", "e", "s", ".", "c", "a", "p", "a", "b", "i",
    "l", "i", "t", "i", "e", "s", ".">>

\* policyTypeToCapability: the full capability name used in the API
policyTypeToCapability(policyType) == CapabilityPrefix \o policyType

\* strings.Split(s, sep) for a one-character separator
RECURSIVE Split(_, _)
Split(s, sep) ==
  LET at == {i \in 1..Len(s) : s[i] = sep}
  IN IF at = {} THEN <<s>>
     ELSE LET i == CHOOSE k \in at : \A j \in at : k <= j
          IN <<SubSeq(s, 1, i - 1)>> \o Split(SubSeq(s, i + 1, Len(s)), sep)

\* a variant that takes the first of the tokens
capabilityToPolicyType_FirstToken(capability) ==
  LET tokens == Split(capability, ".")
  IN tokens[1]

\* capabilityToPolicyType: the last of the tokens between dots
capabilityToPolicyType(capability) ==
  LET tokens == Split(capability, ".")
  IN tokens[Len(tokens)]

\* the IDs policyClient.Create may return
PolicyIDs == {<<"policy-1">>, <<"policy-2">>}

PolicyAttrs ==
  [name : {"n1", "n2"}, description : {"", "d1"},
   policy_type : {computePolicyTypeAllowedValues[i] : i \in 1..Len(computePolicyTypeAllowedValues)},
   vm_tag : {"tag-1"}, host_tag : {""}]

NoPolicy ==
  [exists |-> FALSE, id |-> NoID, name |-> "", description |-> "", capability |-> <<>>]

\* the vAPI std errors; Error() of one is its canonical name
VapiNotFound == [soap |-> FALSE, fault |-> "com.vmware.vapi.std.errors.not_found"]
VapiUnauthenticated == [soap |-> FALSE, fault |-> "com.vmware.vapi.std.errors.unauthenticated"]

VapiErrorString(err) == err.fault

\* policyClient.Get(id)
PolicyGetErrors(server, id) ==
  (IF server.exists /\ server.id = id THEN {NoError} ELSE {VapiNotFound})
    \cup {VapiUnauthenticated}

\* the classification of the error policyClient.Get returned
PolicyReadGetFailed(c, err) ==
  IF VapiErrorString(err) = VapiErrorString(VapiNotFound)
    THEN ReturnNil([c EXCEPT !.id = NoID])
    ELSE ReturnErr(c, err)

\* setResourceProp: structVal.String(field) may fail
setResourceProp(c, field, summaryStruct) ==
  {ReturnErr(c, PlainError), [c EXCEPT !.attrs = [@ EXCEPT ![field] = summaryStruct[field]]]}

resourceVSphereComputePolicyRead(c) ==
  UNION
    {LET c1 == Observe(Call(c, "PoliciesGet"), [lookup |-> err])
         summaryStruct == c.srv
     IN IF err # NoError THEN {PolicyReadGetFailed(c1, err)}
        ELSE Bind(Bind(setResourceProp(c1, "name", summaryStruct),
                       LAMBDA c2 : setResourceProp(c2, "description", summaryStruct)),
                  LAMBDA c3 :
                    {ReturnErr(c3, PlainError),
                     ReturnNil([c3 EXCEPT !.attrs =
                       [@ EXCEPT !.policy_type =
                          capabilityToPolicyType(summaryStruct.capability)]])})
       : err \in PolicyGetErrors(c.srv, c.id)}

\* policyClient.Create(createSpec): the policy the server then holds under the
\* ID it returns
PolicyCreated(c, result) ==
  [exists |-> TRUE, id |-> result, name |-> c.attrs.name,
   description |-> c.attrs.description,
   capability |-> policyTypeToCapability(c.attrs.policy_type)]

\* a variant that does not keep the ID the server returned
resourceVSphereComputePolicyCreate_NoSetId(c) ==
  {ReturnErr(Call(c, "PoliciesCreate"), PlainError)} \cup
  (IF c.srv.exists THEN {}
   ELSE UNION
     {resourceVSphereComputePolicyRead(
        Observe([Call(c, "PoliciesCreate") EXCEPT !.srv = PolicyCreated(c, result)],
                [result |-> result]))
        : result \in PolicyIDs})

resourceVSphereComputePolicyCreate(c) ==
  {ReturnErr(Call(c, "PoliciesCreate"), PlainError)} \cup
  (IF c.srv.exists THEN {}
   ELSE UNION
     {resourceVSphereComputePolicyRead(
        Observe([Call(c, "PoliciesCreate") EXCEPT
                   !.srv = PolicyCreated(c, result), !.id = result],
                [result |-> result]))
        : result \in PolicyIDs})

resourceVSphereComputePolicyDelete(c) ==
  {ReturnErr(Call(c, "PoliciesDelete"), PlainError)} \cup
  (IF c.srv.exists THEN {ReturnNil([Call(c, "PoliciesDelete") EXCEPT !.srv = NoPolicy])}
   ELSE {})

(* ---------------------------------------------------------------------- *)
(* data source vsphere_compute_policy (the first definition in the file)  *)
(* ---------------------------------------------------------------------- *)

PolicyNames == {"n1", "n2"}

\* compute.PoliciesSummary: Policy (the ID), Name, Capability
PolicySummaries ==
  [policy : {<<"policy-" \o ToString(i)>> : i \in 1..MaxPolicies},
   name : PolicyNames,
   capability : {policyTypeToCapability(computePolicyTypeVmHostAffinity),
                 policyTypeToCapability(computePolicyTypeVmVmAffinity)}]

NoPolicies == [policies |-> <<>>]

PolicyDataAttrs == [name : PolicyNames, policy_type : {<<>>}]

\* a variant of the loop that does not stop at the first match
RECURSIVE dataSourcePolicyLoop_LastMatch(_, _, _)
dataSourcePolicyLoop_LastMatch(c, policySummaries, i) ==
  IF i > Len(policySummaries)
    THEN IF c.id # NoID THEN ReturnNil(c) ELSE ReturnErr(c, PlainError)
    ELSE LET summary == policySummaries[i]
         IN IF summary.name = c.attrs.name
              THEN dataSourcePolicyLoop_LastMatch(
                     [c EXCEPT !.id = summary.policy,
                               !.attrs = [@ EXCEPT !.name = summary.name,
                                                   !.policy_type =
                                                     capabilityToPolicyType(summary.capability)]],
                     policySummaries, i + 1)
              ELSE dataSourcePolicyLoop_LastMatch(c, policySummaries, i + 1)

\* the loop over policySummaries from index i on, and the return after it
RECURSIVE dataSourcePolicyLoop(_, _, _)
dataSourcePolicyLoop(c, policySummaries, i) ==
  IF i > Len(policySummaries)
    \* fmt.Errorf never yields nil, although err is nil here
    THEN ReturnErr(c, PlainError)
    ELSE LET summary == policySummaries[i]
         IN IF summary.name = c.attrs.name
              THEN ReturnNil([c EXCEPT !.id = summary.policy,
                                       !.attrs = [@ EXCEPT !.name = summary.name,
                                                           !.policy_type =
                                                             capabilityToPolicyType(summary.capability)]])
              ELSE dataSourcePolicyLoop(c, policySummaries, i + 1)

dataSourceVSphereComputePolicyRead(c) ==
  {ReturnErr(Call(c, "PoliciesList"), VapiUnauthenticated),
   dataSourcePolicyLoop(Observe(Call(c, "PoliciesList"), [list |-> c.srv.policies]),
                        c.srv.policies, 1)}

(* ---------------------------------------------------------------------- *)
(* vsphere_vnic                                                           *)
(* ---------------------------------------------------------------------- *)

NicDevices == {"vmk" \o ToString(i) : i \in 1..MaxNics}

\* the ipv4 and ipv6 blocks of a configuration: a list of at most one item
Ipv4Configs ==
  {<<>>, <<[dhcp |-> TRUE, ip |-> "10.0.0.1", netmask |-> "255.0.0.0"]>>,
   <<[dhcp |-> FALSE, ip |-> "10.0.0.1", netmask |-> "255.0.0.0"]>>}

Ipv6Configs ==
  {<<>>, <<[dhcp |-> TRUE, autoconfig |-> TRUE, addresses |-> <<>>]>>,
   <<[dhcp |-> FALSE, autoconfig |-> TRUE, addresses |-> <<>>]>>}

VnicAttrs ==
  [host : {HostID}, portgroup : {"", "pg1"}, distributed_switch_port : {"", "dvs1"},
   ipv4 : Ipv4Configs, ipv6 : Ipv6Configs]

\* the host with no virtual NIC; a NIC is its device name, its portgroup and
\* whether its spec holds a distributed port connection and an IPv6
\* configuration
HostWithoutNics == [exists |-> TRUE, vnics |-> {}]
HostGone == [exists |-> FALSE, vnics |-> {}]

\* a variant without the check of portgroup against distributed_switch_port
getNicSpecFromSchema_NoExclusion(a) ==
  LET portgroup == a.portgroup
      dvp == a.distributed_switch_port
      ipv4 == a.ipv4
      ipv6 == a.ipv6
  IN IF Len(ipv4) > 0 /\ ipv4[1].dhcp /\ ipv4[1].ip # ""
       THEN [err |-> TRUE, nic |-> NoAttrs]
     ELSE IF Len(ipv6) > 0 /\ ipv6[1].dhcp
               /\ (ipv6[1].autoconfig \/ Len(ipv6[1].addresses) > 0)
       THEN [err |-> TRUE, nic |-> NoAttrs]
     ELSE IF Len(ipv6) > 0 /\ ~ipv6[1].dhcp /\ ipv6[1].autoconfig
               /\ Len(ipv6[1].addresses) > 0
       THEN [err |-> TRUE, nic |-> NoAttrs]
     ELSE [err |-> FALSE,
           nic |-> [portgroup |-> portgroup,
                    dvport |-> portgroup = "",
                    switchUuid |-> IF portgroup = "" THEN dvp ELSE "",
                    ipV6Config |-> Len(ipv6) > 0]]

\* getNicSpecFromSchema: the HostVirtualNicSpec of the configuration, or an error
getNicSpecFromSchema(a) ==
  LET portgroup == a.portgroup
      dvp == a.distributed_switch_port
      ipv4 == a.ipv4
      ipv6 == a.ipv6
  IN IF portgroup # "" /\ dvp # ""
       THEN [err |-> TRUE, nic |-> NoAttrs]
     ELSE IF Len(ipv4) > 0 /\ ipv4[1].dhcp /\ ipv4[1].ip # ""
       THEN [err |-> TRUE, nic |-> NoAttrs]
     ELSE IF Len(ipv6) > 0 /\ ipv6[1].dhcp
               /\ (ipv6[1].autoconfig \/ Len(ipv6[1].addresses) > 0)
       THEN [err |-> TRUE, nic |-> NoAttrs]
     ELSE IF Len(ipv6) > 0 /\ ~ipv6[1].dhcp /\ ipv6[1].autoconfig
               /\ Len(ipv6[1].addresses) > 0
       THEN [err |-> TRUE, nic |-> NoAttrs]
     ELSE [err |-> FALSE,
           nic |-> [portgroup |-> portgroup,
                    dvport |-> portgroup = "",
                    switchUuid |-> IF portgroup = "" THEN dvp ELSE "",
                    ipV6Config |-> Len(ipv6) > 0]]

\* the error of getVnicFromHost when no NIC of the host has the device name
VnicNotFoundError == [soap |-> FALSE, fault |-> "VMKernelInterfaceNotFound"]

\* getVnicFromHost: the host lookup, its properties, the search for the device
getVnicFromHost(c, hostID, nicID) ==
  UNION
    {LET c1 == Call(c, "HostFromID")
     IN IF err # NoError THEN {[c |-> c1, err |-> err, vnic |-> NoAttrs]}
        ELSE
          {[c |-> Call(c1, "Properties"), err |-> PlainError, vnic |-> NoAttrs]} \cup
          (LET found == {v \in c.srv.vnics : v.device = nicID}
           IN IF found = {}
                THEN {[c |-> Call(c1, "Properties"), err |-> VnicNotFoundError,
                       vnic |-> NoAttrs]}
                ELSE {[c |-> Call(c1, "Properties"), err |-> NoError, vnic |-> v]
                        : v \in found})
       : err \in HostLookupErrors(c.srv)}

\* resourceVsphereNicRead once the NIC is found: the log lines dereference the
\* IPv6 flags and d.Set dereferences the distributed port connection; d.Set on
\* the nested ipv4/ipv6 keys leaves the state as it is
VnicReadFound(c, vnic) ==
  IF ~vnic.ipV6Config THEN Panic(c)
  ELSE IF ~vnic.dvport THEN Panic(c)
  ELSE ReturnNil([c EXCEPT !.attrs = [@ EXCEPT !.portgroup = vnic.portgroup,
                                               !.distributed_switch_port = vnic.switchUuid]])

resourceVsphereNicRead(c) ==
  LET toks == Split(c.id, "_")
  IN IF Len(toks) < 2 THEN {Panic(c)}
     ELSE
       {LET c1 == Observe(r.c, [vnicLookup |-> r.err])
        IN IF r.err # NoError
             THEN ReturnNil([c1 EXCEPT !.id = NoID])
             ELSE VnicReadFound(c1, r.vnic)
          : r \in getVnicFromHost(c, toks[1], toks[2][1])}

\* hns.AddVirtualNic: the device name of the new NIC, which holds the spec sent
\* and the IPv6 configuration the host gives it
AddVirtualNicResults(server, nic) ==
  {[err |-> TRUE, nicID |-> "", srv |-> server]} \cup
  {[err |-> FALSE, nicID |-> dev,
    srv |-> [server EXCEPT !.vnics =
               @ \cup {[device |-> dev, portgroup |-> nic.portgroup,
                         dvport |-> nic.dvport, switchUuid |-> nic.switchUuid,
                         ipV6Config |-> v6]}]]
     : dev \in NicDevices \ {v.device : v \in server.vnics},
       v6 \in (IF nic.ipV6Config THEN {TRUE} ELSE BOOLEAN)}

resourceVsphereNicCreate(c) ==
  LET hostID == c.attrs.host
      spec == getNicSpecFromSchema(c.attrs)
  IN IF spec.err THEN {ReturnErr(c, PlainError)}
     ELSE UNION
       {LET c1 == Call(c, "HostFromID")
        IN IF err # NoError THEN {ReturnErr(c1, err)}
           ELSE
             {ReturnErr(Call(c1, "NetworkSystem"), PlainError)} \cup
             UNION
               {LET c2 == [Call(Call(c1, "NetworkSystem"), "AddVirtualNic") EXCEPT
                             !.srv = a.srv]
                    tfNicID == hostID \o <<"_">> \o <<a.nicID>>
                IN IF a.err THEN {ReturnErr(c2, OtherFault)}
                   ELSE UNION
                     {LET c3 == [r.c EXCEPT !.id = tfNicID]
                      IN IF r.err # NoError
                           \* the error is logged only; vnic is nil and vnic.Spec
                           \* dereferences it
                           THEN {Panic(c3)}
                           ELSE resourceVsphereNicRead(c3)
                        : r \in getVnicFromHost(c2, hostID, a.nicID)}
                  : a \in AddVirtualNicResults(c.srv, spec.nic)}
          : err \in HostLookupErrors(c.srv)}

resourceVsphereNicUpdate(c) == resourceVsphereNicRead(c)

resourceVsphereNicDelete(c) == {ReturnNil(c)}

(* ---------------------------------------------------------------------- *)
(* Config: the SOAP session of the provider, saved on disk and reused     *)
(* ---------------------------------------------------------------------- *)

\* the session file as os.Open and json.Decode find it: absent, not
\* openable, not decodable, holding a client that is not Valid(), or holding a
\* valid client
SessionFiles == {"absent", "unreadable", "corrupt", "invalid", "saved"}

\* what the server makes of the session the file holds: a logged-in user
\* session, none (UserSession yields nil), or no property collector for it
ServerSessions == {"authenticated", "unauthenticated", "unknown"}

NoSession == [file |-> "absent", session |-> "unknown"]

Configs == [Persist : BOOLEAN]

\* restoreVimClient: (ok, err) and the client decoded
restoreVimClient(c) ==
  IF ~c.attrs.Persist
    THEN {[c |-> c, ok |-> FALSE, err |-> NoError, valid |-> FALSE]}
    ELSE
      {[c |-> Observe(Call(c, "vimSessionFile"), [sessionPath |-> "err"]),
        ok |-> FALSE, err |-> PlainError, valid |-> FALSE]} \cup
      {LET c1 == Call(Call(c, "vimSessionFile"), "Open")
           file == c.srv.file
       IN IF file = "absent"
            THEN [c |-> c1, ok |-> FALSE, err |-> NoError, valid |-> FALSE]
          ELSE IF file = "unreadable"
            THEN [c |-> c1, ok |-> FALSE, err |-> PlainError, valid |-> FALSE]
          ELSE IF file = "corrupt"
            THEN [c |-> Call(c1, "Decode"), ok |-> FALSE, err |-> PlainError,
                  valid |-> FALSE]
          ELSE [c |-> Call(c1, "Decode"), ok |-> TRUE, err |-> NoError,
                valid |-> file = "saved"]}

\* m.UserSession: the user session, nil, or an error
UserSessionResults(server) ==
  (IF server.session = "authenticated" THEN {[u |-> "user", err |-> NoError]}
   ELSE IF server.session = "unauthenticated" THEN {[u |-> "nil", err |-> NoError]}
   ELSE {[u |-> "nil", err |-> NotFoundFault]})
    \cup {[u |-> "nil", err |-> OtherFault], [u |-> "nil", err |-> PlainError]}

\* LoadVimClient once the session file is restored: the validity check and
\* the query of the user session
LoadVimClientRestored(r) ==
  IF ~r.ok \/ ~r.valid
    THEN {[c |-> r.c, client |-> "nil", err |-> NoError]}
    ELSE
      {LET c1 == Observe(Call(r.c, "UserSession"), [userSession |-> us])
       IN IF us.err # NoError
            THEN IF us.err.soap
                   THEN IF us.err.fault = "ManagedObjectNotFound"
                          THEN [c |-> c1, client |-> "nil", err |-> NoError]
                          ELSE [c |-> c1, client |-> "nil", err |-> us.err]
                   ELSE [c |-> c1, client |-> "nil", err |-> us.err]
          ELSE IF us.u = "nil"
            THEN [c |-> c1, client |-> "nil", err |-> NoError]
          ELSE [c |-> c1, client |-> "loaded", err |-> NoError]
         : us \in UserSessionResults(r.c.srv)}

\* a variant that does not check client.Valid()
LoadVimClient_NoValidCheck(c) ==
  UNION
    {IF r.err # NoError THEN {[c |-> r.c, client |-> "nil", err |-> r.err]}
     ELSE LoadVimClientRestored([r EXCEPT !.valid = r.ok])
       : r \in restoreVimClient(c)}

\* LoadVimClient: (client, err)
LoadVimClient(c) ==
  UNION
    {IF r.err # NoError THEN {[c |-> r.c, client |-> "nil", err |-> r.err]}
     ELSE LoadVimClientRestored(r)
       : r \in restoreVimClient(c)}

\* newClientWithKeepAlive: a new client, logged in when the URL names a user
newClientWithKeepAlive(c, hasUser) ==
  {[c |-> Call(c, "NewClient"), client |-> "nil", err |-> PlainError]} \cup
  (IF hasUser
     THEN {[c |-> Call(Call(c, "NewClient"), "Login"), client |-> "nil",
            err |-> OtherFault],
           [c |-> Call(Call(c, "NewClient"), "Login"), client |-> "new",
            err |-> NoError]}
     ELSE {[c |-> Call(c, "NewClient"), client |-> "new", err |-> NoError]})

\* fmt.Errorf("...: %s", err): a new error that is no SOAP fault
Errorf(err) == PlainError

\* a variant that makes a new session also when loading failed
SavedVimSessionOrNew_NewOnError(c, hasUser) ==
  UNION
    {LET c1 == Observe(l.c, [loaded |-> [client |-> l.client, err |-> l.err]])
     IN IF l.client = "nil"
          THEN {IF n.err # NoError
                  THEN [c |-> n.c, client |-> "nil", err |-> Errorf(n.err)]
                  ELSE n
                  : n \in newClientWithKeepAlive(c1, hasUser)}
          ELSE {[c |-> c1, client |-> l.client, err |-> NoError]}
       : l \in LoadVimClient(c)}

\* SavedVimSessionOrNew: (client, err)
SavedVimSessionOrNew(c, hasUser) ==
  UNION
    {LET c1 == Observe(l.c, [loaded |-> [client |-> l.client, err |-> l.err]])
     IN IF l.err # NoError
          THEN {[c |-> c1, client |-> "nil", err |-> Errorf(l.err)]}
        ELSE IF l.client = "nil"
          THEN {IF n.err # NoError
                  THEN [c |-> n.c, client |-> "nil", err |-> Errorf(n.err)]
                  ELSE n
                  : n \in newClientWithKeepAlive(c1, hasUser)}
          ELSE {[c |-> c1, client |-> l.client, err |-> NoError]}
       : l \in LoadVimClient(c)}

\* SaveVimClient: writes the client to the session file when persistence is
\* on; the file then holds the session of that client
SaveVimClient(c, client) ==
  IF ~c.attrs.Persist THEN {c}
  ELSE {ReturnErr(Call(c, "vimSessionFile"), PlainError),
        ReturnErr(Call(Call(c, "vimSessionFile"), "MkdirAll"), PlainError),
        ReturnErr(Call(Call(Call(c, "vimSessionFile"), "MkdirAll"), "OpenFile"),
                  PlainError),
        ReturnErr(Call(Call(Call(Call(c, "vimSessionFile"), "MkdirAll"), "OpenFile"),
                       "Encode"), PlainError),
        [Call(Call(Call(Call(c, "vimSessionFile"), "MkdirAll"), "OpenFile"), "Encode")
           EXCEPT !.srv = [file |-> "saved",
                           session |-> IF client = "new" THEN "authenticated"
                                       ELSE @.session]]}

\* the REST, vAPI and PBM clients Config.Client sets up on an eligible endpoint
ClientEndpoints(c) ==
  LET rest(c1) == {c1, ReturnErr(Call(c1, "RestLogin"), PlainError),
                   ReturnErr(Call(Call(c1, "RestLogin"), "NewVsphereConnector"),
                             PlainError),
                   Call(Call(c1, "RestLogin"), "NewVsphereConnector")}
      pbm(c1) == {c1, ReturnErr(Call(c1, "ValidateVirtualCenter"), PlainError),
                  ReturnErr(Call(Call(c1, "ValidateVirtualCenter"), "PbmNewClient"),
                            PlainError),
                  Call(Call(c1, "ValidateVirtualCenter"), "PbmNewClient")}
  IN Bind(rest(c), pbm)

\* Config.Client; vimURL always sets the user of the URL
ConfigClient(c) ==
  {ReturnErr(Call(c, "vimURL"), PlainError),
   ReturnErr(Call(Call(c, "vimURL"), "EnableDebug"), PlainError)} \cup
  UNION
    {IF r.err # NoError
       THEN {ReturnErr(Observe(r.c, [vimClient |-> r.client]), r.err)}
       ELSE LET c1 == Observe(r.c, [vimClient |-> r.client])
            IN Bind(Bind(ClientEndpoints(c1), LAMBDA c2 : SaveVimClient(c2, r.client)),
                    LAMBDA c3 : {ReturnNil(c3)})
       : r \in SavedVimSessionOrNew(Call(Call(c, "vimURL"), "EnableDebug"), TRUE)}

(* ---------------------------------------------------------------------- *)
(* What Terraform keeps of a handler's run                                *)
(* ---------------------------------------------------------------------- *)

\* helper/schema saves the ResourceData the handler leaves, also when the
\* handler returns an error; an empty ID (or a Delete that returned nil)
\* removes the resource from the state; a panic ends the plugin and saves
\* nothing
Finish(op, c0, c) ==
  LET id == IF c.ret = "panic" THEN c0.id
            ELSE IF op = "Delete" /\ c.ret = "nil" THEN NoID
            ELSE c.id
  IN /\ dId' = id
     /\ dAttrs' = IF c.ret = "panic" THEN c0.old
                  ELSE IF id = NoID THEN NoAttrs
                  ELSE c.attrs
     /\ srv' = c.srv
     /\ last' = [op |-> op, ret |-> c.ret, err |-> c.err, calls |-> c.calls,
                 id |-> c0.id, cfg |-> c0.attrs, old |-> c0.old, diff |-> c0.diff,
                 before |-> c0.srv, obs |-> c.obs]
     /\ UNCHANGED kind

NoLast == [op |-> "none", ret |-> "nil", err |-> NoError, calls |-> <<>>,
           id |-> NoID, cfg |-> NoAttrs, old |-> NoAttrs, diff |-> {},
           before |-> NoHost,
           obs |-> [none |-> TRUE]]

(* ---------------------------------------------------------------------- *)
(* vsphere_host: the operations Terraform invokes                         *)
(* ---------------------------------------------------------------------- *)

HostMutableKeys == {"connected", "license", "cluster"}

HostCreate ==
  /\ kind = "host"
  /\ last.op = "none"
  /\ dId = NoID
  /\ \E cfg \in HostAttrs :
       LET c0 == NewContext(NoID, cfg, NoAttrs, {}, srv)
       IN \E c \in resourceVsphereHostCreate(c0) : Finish("Create", c0, c)

HostRead ==
  /\ kind = "host"
  /\ last.op = "none"
  /\ dId # NoID
  /\ LET c0 == NewContext(dId, dAttrs, dAttrs, {}, srv)
     IN \E c \in resourceVsphereHostRead(c0) : Finish("Read", c0, c)

HostUpdate ==
  /\ kind = "host"
  /\ last.op = "none"
  /\ dId # NoID
  /\ \E cfg \in HostAttrs, changed \in {ks \in SUBSET {connectionKeys[i] : i \in 1..Len(connectionKeys)} :
                                     Cardinality(ks) <= MaxChanged} :
       LET diff == changed \cup {k \in HostMutableKeys : cfg[k] # dAttrs[k]}
           c0 == NewContext(dId, cfg, dAttrs, diff, srv)
       IN /\ diff # {}
          /\ \E c \in resourceVsphereHostUpdate(c0) : Finish("Update", c0, c)

HostDelete ==
  /\ kind = "host"
  /\ last.op = "none"
  /\ dId # NoID
  /\ LET c0 == NewContext(dId, dAttrs, dAttrs, {}, srv)
     IN \E c \in resourceVsphereHostDelete(c0) : Finish("Delete", c0, c)

\* the server changes on its own: the host loses or regains its connection, or
\* is removed behind Terraform's back
HostServerEvent ==
  /\ kind = "host"
  /\ last.op = "none"
  /\ srv.exists
  /\ \E s \in {[srv EXCEPT !.conn = cs] : cs \in ConnStates} \cup {NoHost} :
       /\ s # srv
       /\ srv' = s
  /\ UNCHANGED <<kind, dId, dAttrs, last>>

(* ---------------------------------------------------------------------- *)
(* vsphere_file: the operations Terraform invokes                         *)
(* ---------------------------------------------------------------------- *)

FileDestinationKeys == {"datastore", "datacenter", "datastore_id", "destination_file"}

FileCreate ==
  /\ kind = "file"
  /\ last.op = "none"
  /\ dId = NoID
  /\ \E cfg \in FileAttrs :
       LET c0 == NewContext(NoID, cfg, FileZeroAttrs, {}, srv)
       IN \E c \in resourceVSphereFileCreate(c0) : Finish("Create", c0, c)

FileRead ==
  /\ kind = "file"
  /\ last.op = "none"
  /\ dId # NoID
  /\ LET c0 == NewContext(dId, dAttrs, dAttrs, {}, srv)
     IN \E c \in resourceVSphereFileRead(c0) : Finish("Read", c0, c)

\* the source attributes are ForceNew: an update changes destination attributes only
FileUpdate ==
  /\ kind = "file"
  /\ last.op = "none"
  /\ dId # NoID
  /\ \E cfg \in FileAttrs :
       LET diff == {k \in DOMAIN cfg : cfg[k] # dAttrs[k]}
           c0 == NewContext(dId, cfg, dAttrs, diff, srv)
       IN /\ diff # {}
          /\ diff \subseteq FileDestinationKeys
          /\ \E c \in resourceVSphereFileUpdate(c0) : Finish("Update", c0, c)

FileDelete ==
  /\ kind = "file"
  /\ last.op = "none"
  /\ dId # NoID
  /\ LET c0 == NewContext(dId, dAttrs, dAttrs, {}, srv)
     IN \E c \in resourceVSphereFileDelete(c0) : Finish("Delete", c0, c)

\* a file is removed from the datastore behind Terraform's back
FileServerEvent ==
  /\ kind = "file"
  /\ last.op = "none"
  /\ \E f \in srv.files : srv' = [files |-> srv.files \ {f}]
  /\ UNCHANGED <<kind, dId, dAttrs, last>>

(* ---------------------------------------------------------------------- *)
(* vsphere_compute_policy: the operations Terraform invokes               *)
(* ---------------------------------------------------------------------- *)

PolicyCreate ==
  /\ kind = "policy"
  /\ last.op = "none"
  /\ dId = NoID
  /\ \E cfg \in PolicyAttrs :
       LET c0 == NewContext(NoID, cfg, NoAttrs, {}, srv)
       IN \E c \in resourceVSphereComputePolicyCreate(c0) : Finish("Create", c0, c)

PolicyRead ==
  /\ kind = "policy"
  /\ last.op = "none"
  /\ dId # NoID
  /\ LET c0 == NewContext(dId, dAttrs, dAttrs, {}, srv)
     IN \E c \in resourceVSphereComputePolicyRead(c0) : Finish("Read", c0, c)

PolicyDelete ==
  /\ kind = "policy"
  /\ last.op = "none"
  /\ dId # NoID
  /\ LET c0 == NewContext(dId, dAttrs, dAttrs, {}, srv)
     IN \E c \in resourceVSphereComputePolicyDelete(c0) : Finish("Delete", c0, c)

\* the policy is deleted on the server behind Terraform's back
PolicyServerEvent ==
  /\ kind = "policy"
  /\ last.op = "none"
  /\ srv.exists
  /\ srv' = NoPolicy
  /\ UNCHANGED <<kind, dId, dAttrs, last>>

(* ---------------------------------------------------------------------- *)
(* data source vsphere_compute_policy: the operations Terraform invokes   *)
(* ---------------------------------------------------------------------- *)

\* a data source is read anew on every refresh
PolicyDataRead ==
  /\ kind = "policy_data"
  /\ last.op = "none"
  /\ \E cfg \in PolicyDataAttrs :
       LET c0 == NewContext(NoID, cfg, NoAttrs, {}, srv)
       IN \E c \in dataSourceVSphereComputePolicyRead(c0) : Finish("Read", c0, c)

\* policies are created and deleted on the server; a new one takes any place
\* in the order the server lists them
PolicyDataServerEvent ==
  /\ kind = "policy_data"
  /\ last.op = "none"
  /\ LET l == srv.policies
         used == {l[i].policy : i \in 1..Len(l)}
     IN \/ \E i \in 1..Len(l) :
             srv' = [policies |-> SubSeq(l, 1, i - 1) \o SubSeq(l, i + 1, Len(l))]
        \/ /\ Len(l) < MaxPolicies
           /\ \E p \in {x \in PolicySummaries : x.policy \notin used}, i \in 0..Len(l) :
                srv' = [policies |-> SubSeq(l, 1, i) \o <<p>> \o SubSeq(l, i + 1, Len(l))]
  /\ UNCHANGED <<kind, dId, dAttrs, last>>

(* ---------------------------------------------------------------------- *)
(* vsphere_vnic: the operations Terraform invokes                         *)
(* ---------------------------------------------------------------------- *)

VnicCreate ==
  /\ kind = "vnic"
  /\ last.op = "none"
  /\ dId = NoID
  /\ \E cfg \in VnicAttrs :
       LET c0 == NewContext(NoID, cfg, NoAttrs, {}, srv)
       IN \E c \in resourceVsphereNicCreate(c0) : Finish("Create", c0, c)

VnicRead ==
  /\ kind = "vnic"
  /\ last.op = "none"
  /\ dId # NoID
  /\ LET c0 == NewContext(dId, dAttrs, dAttrs, {}, srv)
     IN \E c \in resourceVsphereNicRead(c0) : Finish("Read", c0, c)

\* no attribute is ForceNew: any change of the configuration is an update
VnicUpdate ==
  /\ kind = "vnic"
  /\ last.op = "none"
  /\ dId # NoID
  /\ \E cfg \in VnicAttrs :
       LET diff == {k \in DOMAIN cfg : cfg[k] # dAttrs[k]}
           c0 == NewContext(dId, cfg, dAttrs, diff, srv)
       IN /\ diff # {}
          /\ \E c \in resourceVsphereNicUpdate(c0) : Finish("Update", c0, c)

VnicDelete ==
  /\ kind = "vnic"
  /\ last.op = "none"
  /\ dId # NoID
  /\ LET c0 == NewContext(dId, dAttrs, dAttrs, {}, srv)
     IN \E c \in resourceVsphereNicDelete(c0) : Finish("Delete", c0, c)

\* a NIC is removed from the host, or the host from the inventory, behind
\* Terraform's back
VnicServerEvent ==
  /\ kind = "vnic"
  /\ last.op = "none"
  /\ srv.exists
  /\ \/ \E v \in srv.vnics : srv' = [srv EXCEPT !.vnics = @ \ {v}]
     \/ srv' = HostGone
  /\ UNCHANGED <<kind, dId, dAttrs, last>>

(* ---------------------------------------------------------------------- *)
(* Config: the provider is configured                                     *)
(* ---------------------------------------------------------------------- *)

SessionClient ==
  /\ kind = "session"
  /\ last.op = "none"
  /\ \E cfg \in Configs :
       LET c0 == NewContext(NoID, cfg, NoAttrs, {}, srv)
       IN \E c \in ConfigClient(c0) : Finish("Client", c0, c)

\* the session file is shared with govc, which writes it too, and can be
\* removed or damaged; the server ends sessions on its own
SessionServerEvent ==
  /\ kind = "session"
  /\ last.op = "none"
  /\ \E s \in [file : SessionFiles, session : ServerSessions] :
       /\ s # srv
       /\ srv' = s
  /\ UNCHANGED <<kind, dId, dAttrs, last>>

(* ---------------------------------------------------------------------- *)
(* The conversions between policy type and capability, applied to strings *)
(* ---------------------------------------------------------------------- *)

PolicyTypeChars == {"v", "_", "."}

RECURSIVE StringsUpTo(_)
StringsUpTo(n) ==
  IF n = 0 THEN {<<>>}
  ELSE LET shorter == StringsUpTo(n - 1)
       IN shorter \cup {Append(str, ch) : str \in shorter, ch \in PolicyTypeChars}

\* the policy types the schema allows, and arbitrary short strings
PolicyTypeInputs ==
  {computePolicyTypeAllowedValues[i] : i \in 1..Len(computePolicyTypeAllowedValues)}
    \cup StringsUpTo(MaxTypeLen)

ConvertToCapability ==
  /\ kind = "convert"
  /\ last.op = "none"
  /\ \E policyType \in PolicyTypeInputs :
       last' = [NoLast EXCEPT !.op = "policyTypeToCapability",
                              !.cfg = [policy_type |-> policyType],
                              !.obs = [capability |-> policyTypeToCapability(policyType)]]
  /\ UNCHANGED <<kind, dId, dAttrs, srv>>

ConvertToPolicyType ==
  /\ kind = "convert"
  /\ last.op = "policyTypeToCapability"
  /\ last' = [last EXCEPT !.op = "capabilityToPolicyType",
                          !.obs = [policyType |-> capabilityToPolicyType(last.obs.capability)]
                                    @@ @]
  /\ UNCHANGED <<kind, dId, dAttrs, srv>>

\* the handler has returned and Terraform is between operations: the record
\* of the run is dropped
Idle ==
  /\ last.op # "none"
  /\ last' = NoLast
  /\ UNCHANGED <<kind, dId, dAttrs, srv>>

\* the server before Terraform has done anything
InitServer(k) ==
  IF k = "host" THEN NoHost
  ELSE IF k = "file" THEN NoFiles
  ELSE IF k = "policy_data" THEN NoPolicies
  ELSE IF k = "vnic" THEN HostWithoutNics
  ELSE IF k = "session" THEN NoSession
  ELSE NoPolicy

Init ==
  /\ kind \in Kinds
  /\ dId = NoID
  /\ dAttrs = NoAttrs
  /\ srv = InitServer(kind)
  /\ last = NoLast

Next ==
  \/ HostCreate
  \/ HostRead
  \/ HostUpdate
  \/ HostDelete
  \/ HostServerEvent
  \/ FileCreate
  \/ FileRead
  \/ FileUpdate
  \/ FileDelete
  \/ FileServerEvent
  \/ PolicyCreate
  \/ PolicyRead
  \/ PolicyDelete
  \/ PolicyServerEvent
  \/ PolicyDataRead
  \/ PolicyDataServerEvent
  \/ VnicCreate
  \/ VnicRead
  \/ VnicUpdate
  \/ VnicDelete
  \/ VnicServerEvent
  \/ SessionClient
  \/ SessionServerEvent
  \/ ConvertToCapability
  \/ ConvertToPolicyType
  \/ Idle

Spec == Init /\ [][Next]_vars

(* ---------------------------------------------------------------------- *)
(* Properties                                                             *)
(* ---------------------------------------------------------------------- *)

Count(calls, name) == Cardinality({i \in DOMAIN calls : calls[i] = name})

Observed(field) == field \in DOMAIN last.obs

ConnectionKeySet == {connectionKeys[i] : i \in 1..Len(connectionKeys)}

\* the not-found error of each resource's lookup
NotFoundOf(k) ==
  IF k = "host" THEN NotFoundFault
  ELSE IF k = "file" THEN NoSuchFileError
  ELSE VapiNotFound

\* host Update got as far as deciding about the connection
HostUpdateDecided == kind = "host" /\ last.op = "Update" /\ Observed("actual")

\* C1: Read of a host, file or compute policy clears the ID and returns nil
\* exactly when its lookup fails with the resource's not-found error; any other
\* lookup error is returned and the ID stays as it was.
C1_ReadClearsIDOnNotFound ==
  (kind \in {"host", "file", "policy"} /\ last.op = "Read") =>
    /\ (Observed("lookup") /\ last.obs.lookup = NotFoundOf(kind))
         => (dId = NoID /\ last.ret = "nil")
    /\ (Observed("lookup") /\ last.obs.lookup \notin {NoError, NotFoundOf(kind)})
         => (last.ret = "error" /\ last.err = last.obs.lookup /\ dId = last.id)
    /\ Observed("datastores") => (last.ret = "error" /\ dId = last.id)
    /\ dId = NoID => (Observed("lookup") /\ last.obs.lookup = NotFoundOf(kind))

C1_Witness ==
  /\ kind = "host" /\ last.op = "Read" /\ last.id = HostID
  /\ Observed("lookup") /\ last.obs.lookup = NotFoundFault
  /\ dId = NoID /\ last.ret = "nil"

\* C2: host Update with desired connected = true and a changed connection
\* setting or a disconnected host issues exactly one Reconnect and no Disconnect.
C2_ReconnectWhenNeeded ==
  (/\ HostUpdateDecided
   /\ last.cfg.connected
   /\ (last.diff \cap ConnectionKeySet # {} \/ last.obs.actual = "disconnected"))
    => (Count(last.calls, "Reconnect") = 1 /\ Count(last.calls, "Disconnect") = 0)

C2_Witness ==
  /\ HostUpdateDecided /\ last.cfg.connected /\ last.ret = "nil"
  /\ last.diff \cap ConnectionKeySet = {"thumbprint"} /\ last.obs.actual = "connected"
  /\ Count(last.calls, "Reconnect") = 1

\* C3: host Update with desired connected = true, no changed connection setting
\* and a host that is connected or notResponding issues neither Reconnect nor
\* Disconnect.
C3_NoopWhenConnected ==
  (/\ HostUpdateDecided
   /\ last.cfg.connected
   /\ last.diff \cap ConnectionKeySet = {}
   /\ last.obs.actual \in {"connected", "notResponding"})
    => (Count(last.calls, "Reconnect") = 0 /\ Count(last.calls, "Disconnect") = 0)

\* C4: host Update with desired connected = false issues no connection action
\* when the host is disconnected, exactly one Disconnect otherwise, and never a
\* Reconnect.
C4_DisconnectWhenDesired ==
  (HostUpdateDecided /\ ~last.cfg.connected)
    => /\ Count(last.calls, "Reconnect") = 0
       /\ last.obs.actual = "disconnected" => Count(last.calls, "Disconnect") = 0
       /\ last.obs.actual # "disconnected" => Count(last.calls, "Disconnect") = 1

C4_Witness ==
  /\ HostUpdateDecided /\ ~last.cfg.connected /\ last.ret = "nil"
  /\ last.diff \cap ConnectionKeySet # {}
  /\ last.obs.actual = "notResponding"
  /\ Count(last.calls, "Disconnect") = 1

\* C5: after a successful host Create or Update with connected = false, a
\* Disconnect was issued unless the host was already disconnected (as Update
\* found it, or as Create added it).
C5_DisconnectedAfterApply ==
  (kind = "host" /\ last.op \in {"Create", "Update"} /\ last.ret = "nil"
   /\ ~last.cfg.connected)
    => \/ Count(last.calls, "Disconnect") >= 1
       \/ (last.op = "Update" /\ last.obs.actual = "disconnected")
       \/ (last.op = "Create" /\ last.obs.added = "disconnected")

C5_Witness ==
  /\ kind = "host" /\ last.op = "Update" /\ last.ret = "nil" /\ ~last.cfg.connected
  /\ last.obs.actual = "connected" /\ Count(last.calls, "Disconnect") = 1
  /\ srv.conn = "disconnected"

\* C6: after a successful host Read of an existing host, state attribute
\* connected is true iff the host's connection state is not disconnected.
C6_ReadReflectsConnection ==
  (kind = "host" /\ last.op = "Read" /\ last.ret = "nil" /\ dId # NoID
   /\ Observed("connectionState"))
    => (dAttrs.connected <=> last.obs.connectionState # "disconnected")

\* C7: a host Create with an empty license key is not rejected for lack of a
\* license: once the cluster and the license list are retrieved, it goes on to
\* AddHost.
C7_LicenseOptional ==
  (kind = "host" /\ last.op = "Create" /\ Observed("licFound")
   /\ last.cfg.license = "")
    => ~(last.ret = "error" /\ last.calls = <<"ClusterFromID", "LicenseList">>)

\* C8: when AddHost returns an error, host Create returns an error and the ID
\* stays empty.
C8_AddHostErrorReturned ==
  (kind = "host" /\ last.op = "Create" /\ Observed("addHost")
   /\ last.obs.addHost = "err")
    => (last.ret = "error" /\ dId = NoID)

\* C9: when the license changed and assigning it fails, host Update returns an
\* error.
C9_LicenseFailureReturned ==
  (kind = "host" /\ last.op = "Update" /\ "license" \in last.diff
   /\ Observed("licenseUpdate") /\ last.obs.licenseUpdate = "err")
    => last.ret = "error"

\* the datastore a set of destination attributes names
DestinationDatastore(a) ==
  CHOOSE ds \in Datastores :
    IF a.datastore_id = "" THEN ds.name = a.datastore /\ ds.dc = a.datacenter
    ELSE ds.id = a.datastore_id

\* C10: the move file Update issues goes from the old destination datastore and
\* old destination_file to the new destination datastore and new destination_file.
C10_MoveFromOldToNew ==
  (kind = "file" /\ last.op = "Update" /\ Observed("move"))
    => /\ last.obs.move.src =
            DatastorePath(DestinationDatastore(last.old), last.old.destination_file)
       /\ last.obs.move.dst =
            DatastorePath(DestinationDatastore(last.cfg), last.cfg.destination_file)

\* the positions of a call in the sequence of calls
Positions(calls, name) == {i \in DOMAIN calls : calls[i] = name}

\* the calls that write the file of a file Create
FileWriteCalls == {"CopyDatastoreFile", "UploadFile"}

\* destination_file has a directory component
HasDirectory(df) == LastIndex(df, "/") # -1

\* C11: every file Create whose destination_file has a directory component
\* issues MakeDirectory for that directory on the destination datastore before
\* the file is written, be it copied from a source datastore or uploaded.
C11_DirectoryMadeBeforeWrite ==
  (/\ kind = "file" /\ last.op = "Create"
   /\ HasDirectory(last.cfg.destination_file)
   /\ \E w \in FileWriteCalls : Positions(last.calls, w) # {})
    => /\ Observed("mkdir")
       /\ last.obs.mkdir =
            DatastorePath(DestinationDatastore(last.cfg),
                          SubSeq(last.cfg.destination_file, 1,
                                 LastIndex(last.cfg.destination_file, "/")))
       /\ \A w \in FileWriteCalls : \A i \in Positions(last.calls, w) :
            \E j \in Positions(last.calls, "MakeDirectory") : j < i

\* C12: after a successful compute-policy Create the state ID is non-empty and
\* is the ID the server returned, the policy with that ID exists on the server,
\* and state attributes name, description and policy_type are the configured
\* values.
C12_PolicyCreatePostState ==
  (kind = "policy" /\ last.op = "Create" /\ last.ret = "nil")
    => /\ dId # NoID
       /\ Observed("result") /\ dId = last.obs.result
       /\ srv.exists /\ srv.id = dId
       /\ dAttrs.name = last.cfg.name
       /\ dAttrs.description = last.cfg.description
       /\ dAttrs.policy_type = last.cfg.policy_type

C12_Witness ==
  /\ kind = "policy" /\ last.op = "Create" /\ last.ret = "nil"
  /\ dId = <<"policy-2">> /\ srv.exists /\ srv.id = <<"policy-2">>
  /\ last.cfg.policy_type = computePolicyTypeVmVmAntiAffinity
  /\ dAttrs.policy_type = computePolicyTypeVmVmAntiAffinity
  /\ dAttrs.description = "d1"

\* the characters of a string
Chars(str) == {str[i] : i \in 1..Len(str)}

\* C13: capabilityToPolicyType(policyTypeToCapability(p)) = p for each of the
\* four allowed policy types and for every policy type that contains no '.'.
C13_PolicyTypeRoundTrip ==
  (/\ kind = "convert" /\ last.op = "capabilityToPolicyType"
   /\ \/ \E i \in 1..Len(computePolicyTypeAllowedValues) :
            last.cfg.policy_type = computePolicyTypeAllowedValues[i]
      \/ "." \notin Chars(last.cfg.policy_type))
    => last.obs.policyType = last.cfg.policy_type

C13_Witness ==
  /\ kind = "convert" /\ last.op = "capabilityToPolicyType"
  /\ last.cfg.policy_type = computePolicyTypeVmHostAntiAffinity
  /\ last.obs.capability = CapabilityPrefix \o computePolicyTypeVmHostAntiAffinity
  /\ last.obs.policyType = computePolicyTypeVmHostAntiAffinity

\* the positions of the listed policies that have the configured name
NameMatches(list, name) == {i \in 1..Len(list) : list[i].name = name}

\* C14: the compute-policy data source Read sets the state ID to the ID of the
\* first listed policy whose name is the configured name; when no listed policy
\* has that name it returns an error and sets no ID.
C14_FirstMatchingName ==
  (kind = "policy_data" /\ last.op = "Read" /\ Observed("list"))
    => LET matches == NameMatches(last.obs.list, last.cfg.name)
       IN IF matches # {}
            THEN /\ last.ret = "nil"
                 /\ dId = last.obs.list[CHOOSE i \in matches : \A j \in matches : i <= j].policy
            ELSE last.ret = "error" /\ dId = NoID

C14_Witness ==
  /\ kind = "policy_data" /\ last.op = "Read" /\ Observed("list")
  /\ Len(last.obs.list) = 2
  /\ NameMatches(last.obs.list, last.cfg.name) = {1, 2}
  /\ last.obs.list[1].policy = <<"policy-2">>
  /\ last.ret = "nil" /\ dId = <<"policy-2">>

\* the device name in the ID of a vNIC resource
NicOfID(id) == Split(id, "_")[2][1]

\* C15: after a successful vNIC Delete the NIC of the resource is no longer
\* among the virtual NICs of the host.
C15_DeleteRemovesNic ==
  (kind = "vnic" /\ last.op = "Delete" /\ last.ret = "nil")
    => \A v \in srv.vnics : v.device # NicOfID(last.id)

\* C16: a vNIC Create whose configuration sets both portgroup and
\* distributed_switch_port returns an error, issues no remote call and sets no
\* state ID.
C16_PortgroupExcludesSwitchPort ==
  (/\ kind = "vnic" /\ last.op = "Create"
   /\ last.cfg.portgroup # "" /\ last.cfg.distributed_switch_port # "")
    => (last.ret = "error" /\ last.calls = <<>> /\ dId = NoID /\ srv = last.before)

C16_Witness ==
  /\ kind = "vnic" /\ last.op = "Create"
  /\ last.cfg.portgroup = "pg1" /\ last.cfg.distributed_switch_port = "dvs1"
  /\ last.cfg.ipv4 = <<>> /\ last.cfg.ipv6 = <<>>
  /\ last.ret = "error" /\ last.calls = <<>> /\ dId = NoID

\* C17: vNIC Read clears the state ID only when the NIC (or its host) is not
\* found; when the host lookup or the retrieval of the host's properties fails
\* otherwise, the error is returned and the state ID stays as it was.
C17_ReadClearsIDOnlyOnNotFound ==
  (kind = "vnic" /\ last.op = "Read" /\ Observed("vnicLookup"))
    => /\ dId = NoID => last.obs.vnicLookup \in {VnicNotFoundError, NotFoundFault}
       /\ last.obs.vnicLookup \in {OtherFault, PlainError}
            => (last.ret = "error" /\ last.err = last.obs.vnicLookup /\ dId = last.id)

\* LoadVimClient ran and returned this (client, err)
SessionLoaded == kind = "session" /\ last.op = "Client" /\ Observed("loaded")

\* the session file was found and decoded
SessionRestored ==
  /\ last.cfg.Persist /\ ~Observed("sessionPath")
  /\ last.before.file \in {"invalid", "saved"}

\* C18: LoadVimClient returns a client only if persistence is enabled, the
\* session file was found and decoded, the restored client is valid and the
\* server reports a user session for it.  It returns no client and no error
\* when persistence is disabled, the file is absent, the restored client is
\* invalid, the session query fails with ManagedObjectNotFound or the user
\* session is nil; every other failure is returned as an error.
C18_LoadVimClient ==
  SessionLoaded =>
    LET r == last.obs.loaded
        queried == Observed("userSession")
    IN /\ r.client # "nil"
            => /\ SessionRestored /\ last.before.file = "saved"
               /\ queried /\ last.obs.userSession = [u |-> "user", err |-> NoError]
               /\ r.err = NoError
       /\ (\/ ~last.cfg.Persist
           \/ (last.cfg.Persist /\ ~Observed("sessionPath")
                 /\ last.before.file \in {"absent", "invalid"})
           \/ (queried /\ last.obs.userSession.err = NotFoundFault)
           \/ (queried /\ last.obs.userSession = [u |-> "nil", err |-> NoError]))
            => r = [client |-> "nil", err |-> NoError]
       /\ (\/ Observed("sessionPath")
           \/ (last.cfg.Persist /\ last.before.file \in {"unreadable", "corrupt"})
           \/ (queried /\ last.obs.userSession.err \in {OtherFault, PlainError}))
            => (r.client = "nil" /\ r.err # NoError)

C18_Witness ==
  /\ SessionLoaded /\ SessionRestored /\ last.before.file = "saved"
  /\ last.obs.userSession = [u |-> "user", err |-> NoError]
  /\ last.obs.loaded = [client |-> "loaded", err |-> NoError]

\* C19: SavedVimSessionOrNew creates a new SOAP session exactly when
\* LoadVimClient returned no client and no error; a loaded session is returned
\* without a new client or login; when loading fails, an error is returned and
\* no new session is created.
C19_SavedSessionOrNew ==
  SessionLoaded =>
    LET r == last.obs.loaded
    IN /\ Count(last.calls, "NewClient") >= 1 <=> r = [client |-> "nil", err |-> NoError]
       /\ r.client = "loaded"
            => /\ Count(last.calls, "NewClient") = 0 /\ Count(last.calls, "Login") = 0
               /\ last.obs.vimClient = "loaded"
       /\ r.err # NoError
            => /\ last.ret = "error" /\ last.obs.vimClient = "nil"
               /\ Count(last.calls, "NewClient") = 0 /\ Count(last.calls, "Login") = 0

C19_Witness ==
  /\ SessionLoaded /\ last.obs.loaded = [client |-> "nil", err |-> NoError]
  /\ last.cfg.Persist /\ last.before.file = "invalid"
  /\ Count(last.calls, "NewClient") = 1 /\ Count(last.calls, "Login") = 1
  /\ last.obs.vimClient = "new" /\ last.ret = "nil" /\ srv.file = "saved"

\* host Update got to its final Read, whose lookup is the last HostFromID
HostUpdateReadReached == HostUpdateDecided /\ Observed("lookup")

FinalReadStart ==
  CHOOSE i \in Positions(last.calls, "HostFromID") :
    \A j \in Positions(last.calls, "HostFromID") : j <= i

\* C20: host Update assigns the license only if license changed and moves the
\* host (with its maintenance-mode changes) only if cluster changed; when the
\* connection step and the modifications succeed, each changed field was
\* applied exactly once, before the final Read.
C20_MutableFieldsByDiff ==
  HostUpdateDecided =>
    /\ "license" \notin last.diff => Count(last.calls, "LicenseUpdate") = 0
    /\ "cluster" \notin last.diff
         => /\ Count(last.calls, "MoveInto") = 0
            /\ Count(last.calls, "EnterMaintenanceMode") = 0
            /\ Count(last.calls, "ExitMaintenanceMode") = 0
    /\ HostUpdateReadReached
         => /\ "license" \in last.diff
                 => /\ Count(last.calls, "LicenseUpdate") = 1
                    /\ \A i \in Positions(last.calls, "LicenseUpdate") : i < FinalReadStart
                    /\ last.obs.licenseUpdate = "ok" => srv.license = last.cfg.license
            /\ "cluster" \in last.diff
                 => /\ Count(last.calls, "MoveInto") = 1
                    /\ \A i \in Positions(last.calls, "MoveInto") : i < FinalReadStart
                    /\ srv.parent = last.cfg.cluster

C20_Witness ==
  /\ HostUpdateReadReached /\ last.ret = "nil"
  /\ {"license", "cluster"} \subseteq last.diff
  /\ Count(last.calls, "LicenseUpdate") = 1 /\ Count(last.calls, "MoveInto") = 1
  /\ srv.license = last.cfg.license /\ srv.parent = last.cfg.cluster
  /\ last.before.license # last.cfg.license /\ last.before.parent # last.cfg.cluster

\* C21: host Delete issues Destroy only after EnterMaintenanceMode succeeded;
\* when entering maintenance mode fails, no Destroy is issued and an error is
\* returned; Delete returns nil only after the destroy task was waited for and
\* its state is success.
C21_MaintenanceBeforeDestroy ==
  (kind = "host" /\ last.op = "Delete") =>
    /\ Count(last.calls, "Destroy") >= 1
         => /\ Observed("maintenance") /\ last.obs.maintenance = "ok"
            /\ \A i \in Positions(last.calls, "Destroy") :
                 \E j \in Positions(last.calls, "EnterMaintenanceMode") : j < i
    /\ (Observed("maintenance") /\ last.obs.maintenance = "err")
         => (Count(last.calls, "Destroy") = 0 /\ last.ret = "error" /\ srv = last.before)
    /\ last.ret = "nil"
         => /\ Observed("task") /\ last.obs.task = "success"
            /\ \E i \in Positions(last.calls, "Destroy"),
                  j \in Positions(last.calls, "TaskWait"),
                  k \in Positions(last.calls, "TaskProperties") : i < j /\ j < k
            /\ ~srv.exists

C21_Witness ==
  /\ kind = "host" /\ last.op = "Delete" /\ last.ret = "nil"
  /\ last.before.exists /\ ~srv.exists /\ dId = NoID
  /\ last.calls = <<"HostFromID", "EnterMaintenanceMode", "Destroy", "TaskWait",
                    "TaskProperties">>
  /\ last.obs.maintenance = "ok" /\ last.obs.task = "success"

====
